---- MODULE Spec2Model ----
(***************************************************************************)
(* Call lifecycle (convex/calls.ts) and meeting negotiation                *)
(* (convex/calendar.ts) of huddleUp, as state machines over the document   *)
(* store.  Every Convex mutation runs as one serializable transaction, so  *)
(* each handler is one atomic action.  A handler that throws commits no    *)
(* write; the thrown message is recorded in `last`.                        *)
(***************************************************************************)
EXTENDS Integers, FiniteSets, Sequences, TLC

VARIABLES
    calls,              \* table calls
    callParticipants,   \* table callParticipants (joinedAt, which no handler
                        \* reads, is left out)
    presenceStatus,     \* users[_id].presenceStatus
    messages,           \* table messages (rows of type 'call')
    now,                \* Date.now()
    calendarEvents,         \* table calendarEvents
    meetingRequests,        \* table meetingRequests
    meetingUpdateRequests,  \* table meetingUpdateRequests
    eventSeq,           \* number of rows ever inserted into calendarEvents
    requestSeq,         \* number of rows ever inserted into meetingRequests
    directConversations,    \* table directConversations
    groups,             \* table groups
    groupMembers,       \* table groupMembers
    lastHeartbeat,      \* users[_id].lastHeartbeat
    pinnedMessages,     \* table pinnedMessages
    last                \* outcome of the last handler invocation

callVars == <<calls, callParticipants, presenceStatus, messages, now>>
calVars == <<calendarEvents, meetingRequests, meetingUpdateRequests,
             eventSeq, requestSeq>>
appVars == <<directConversations, groups, groupMembers, lastHeartbeat,
             pinnedMessages>>
vars == <<callVars, calVars, appVars, last>>

\* ------------------------------------------------------------------ bounds
MaxCalls == 1
MaxTime == 3
MaxEvents == 2
MaxSoloEvents == 1
MaxRequests == 1
MaxUpdateRequests == 2
MaxMultiCalls == 2
MaxConversations == 4
MaxGroups == 2
MaxMemberIds == 2
MaxMessages == 1
MaxPresenceTime == 60002

\* ------------------------------------------------------------ store values
\* An optional field that is absent (v.optional): JavaScript undefined.
Undefined == -1

\* Mutant: no timestamp is ever seen as set.
TruthyNever(x) == FALSE

\* JavaScript truthiness of an optional number: undefined and 0 are falsy.
Truthy(x) == x # Undefined /\ x # 0

\* Rows of table users (their _id); every caller below is authenticated.
Users == {1, 2, 3}

ConversationIds == { c._id : c \in directConversations }
GroupIds == { g._id : g \in groups }

\* ctx.db.get(id) on a table whose rows carry _id; the caller checks existence.
Get(table, id) == CHOOSE r \in table : r._id = id
Exists(table, id) == \E r \in table : r._id = id

\* ctx.db.patch(id, fields) for one row.
Patch(table, id, new) == { IF r._id = id THEN new ELSE r : r \in table }

\* .first() of an indexed query: the row inserted first (smallest _id).
First(rows) == CHOOSE r \in rows : \A s \in rows : r._id <= s._id

\* What a handler invocation answered: the error it threw ("" when it
\* returned), the id it returned, and a note on what it did.
Result(op, err, ret, note) == [op |-> op, err |-> err, ret |-> ret, note |-> note]

Outcome(op, err, ret) == Result(op, err, ret, "")

\* A handler that throws: the transaction is rolled back.
Throw(op, err) ==
    /\ last' = Outcome(op, err, Undefined)
    /\ UNCHANGED <<callVars, calVars, appVars>>

\* ------------------------------------------------------------ formatDuration
\* formatDuration(ms): the pieces of the rendered string, e.g. <<1, "m ", 5, "s">>.
formatDuration(ms) ==
    LET seconds == ms \div 1000
        minutes == seconds \div 60
        hours == minutes \div 60
    IN  IF hours > 0 THEN <<hours, "h ", minutes % 60, "m">>
        ELSE IF minutes > 0 THEN <<minutes, "m ", seconds % 60, "s">>
        ELSE <<seconds, "s">>

\* ---------------------------------------------------------------- createCall
\* Math.random().toString(36).substring(7): the values the random suffix of
\* a room name is drawn from.
Suffixes == { "a", "b" }

\* `huddleup-${Date.now()}-${suffix}`
RoomName(suffix) == <<"huddleup-", now, "-", suffix>>

\* createCall (action) + createCallRecord (internal mutation).
createCall(u, conversationId, groupId) ==
    IF conversationId = Undefined /\ groupId = Undefined
    THEN Throw("createCall", "Must specify either conversationId or groupId")
    ELSE
        \E suffix \in Suffixes :
           LET callId == Cardinality(calls) + 1
           IN  /\ calls' = calls \cup
                     { [_id |-> callId, conversationId |-> conversationId,
                        groupId |-> groupId, initiatorId |-> u,
                        status |-> "ringing", roomName |-> RoomName(suffix),
                        startedAt |-> Undefined,
                        endedAt |-> Undefined, duration |-> Undefined] }
               /\ callParticipants' = callParticipants \cup
                     { [_id |-> Cardinality(callParticipants) + 1,
                        callId |-> callId, userId |-> u,
                        leftAt |-> Undefined] }
               /\ presenceStatus' = [presenceStatus EXCEPT ![u] = "inCall"]
               /\ last' = Outcome("createCall", "", callId)
               /\ UNCHANGED <<messages, now, calVars, appVars>>

\* ------------------------------------------------------------------ joinCall
\* Mutant: the access check lets every authenticated user in.
HasAccessAnyone(call, u) == TRUE

\* The access check of addParticipant.
HasAccess(call, u) ==
    IF call.conversationId # Undefined
    THEN /\ Exists(directConversations, call.conversationId)
         /\ LET conversation == Get(directConversations, call.conversationId)
            IN  conversation.participant1Id = u \/ conversation.participant2Id = u
    ELSE IF call.groupId # Undefined
    THEN \E m \in groupMembers : m.groupId = call.groupId /\ m.userId = u
    ELSE TRUE

\* The status patch of addParticipant: a ringing call becomes active.
JoinStatus(call) ==
    IF call.status = "ringing"
    THEN [call EXCEPT !.status = "active", !.startedAt = now]
    ELSE call

\* joinCall (action) + addParticipant (internal mutation).
joinCall(u, callId) ==
    IF ~Exists(calls, callId) THEN Throw("joinCall", "Call not found")
    ELSE LET call == Get(calls, callId) IN
    IF call.status = "ended" \/ call.status = "missed"
    THEN Throw("joinCall", "Call has already ended")
    ELSE IF ~HasAccess(call, u)
    THEN Throw("joinCall", "Not authorized to join this call")
    ELSE
        LET rows == { p \in callParticipants : p.callId = callId /\ p.userId = u }
        IN  /\ callParticipants' =
                 IF rows = {}
                 THEN callParticipants \cup
                        { [_id |-> Cardinality(callParticipants) + 1,
                           callId |-> callId, userId |-> u,
                           leftAt |-> Undefined] }
                 ELSE IF Truthy(First(rows).leftAt)
                 THEN Patch(callParticipants, First(rows)._id,
                            [First(rows) EXCEPT !.leftAt = Undefined])
                 ELSE callParticipants
            /\ calls' = Patch(calls, callId, JoinStatus(call))
            /\ presenceStatus' = [presenceStatus EXCEPT ![u] = "inCall"]
            /\ last' = Result("joinCall", "", callId,
                              IF rows = {} THEN "inserted"
                              ELSE IF Truthy(First(rows).leftAt) THEN "rejoined"
                              ELSE "")
            /\ UNCHANGED <<messages, now, calVars, appVars>>

\* ----------------------------------------------------------------- leaveCall
\* The system message both leaveCall and endCall insert.  callId is not a
\* column of the table: it records which call the row was inserted for.
CallMessage(call, content, duration) ==
    [_id |-> Cardinality(messages) + 1, senderId |-> call.initiatorId,
     content |-> content, conversationId |-> call.conversationId,
     groupId |-> call.groupId, type |-> "call", fileId |-> Undefined,
     fileType |-> "", fileSize |-> Undefined, callDuration |-> duration,
     isDeleted |-> FALSE, callId |-> call._id]

HasTarget(call) == call.conversationId # Undefined \/ call.groupId # Undefined

\* The rows of a call that are still joined (leftAt unset).
ActiveParticipants(rows, callId) ==
    { p \in rows : p.callId = callId /\ p.leftAt = Undefined }

\* Mutant: the call ends as soon as anyone leaves.
LeaveEndsAlways(call, rows) == call.status = "active"

\* Mutant: the roster is read before the caller's own row is patched.
LeaveEndsStaleRead(call, rows) ==
    ActiveParticipants(callParticipants, call._id) = {} /\ call.status = "active"

\* Mutant: leaveCall never ends the call.
LeaveEndsNever(call, rows) == FALSE

\* The condition under which leaveCall ends the call.
LeaveEnds(call, rows) ==
    ActiveParticipants(rows, call._id) = {} /\ call.status = "active"

leaveCall(u, callId) ==
    IF ~Exists(calls, callId) THEN Throw("leaveCall", "Call not found")
    ELSE
        LET call == Get(calls, callId)
            mine == { p \in callParticipants : p.callId = callId /\ p.userId = u }
            rows == IF mine # {} /\ ~Truthy(First(mine).leftAt)
                    THEN Patch(callParticipants, First(mine)._id,
                               [First(mine) EXCEPT !.leftAt = now])
                    ELSE callParticipants
            duration == IF Truthy(call.startedAt) THEN now - call.startedAt ELSE 0
        IN  /\ callParticipants' = rows
            /\ presenceStatus' = [presenceStatus EXCEPT ![u] = "active"]
            /\ IF LeaveEnds(call, rows)
               THEN /\ calls' = Patch(calls, callId,
                          [call EXCEPT !.status = "ended", !.endedAt = now,
                                       !.duration = duration])
                    /\ messages' =
                          IF HasTarget(call)
                          THEN messages \cup
                                 { CallMessage(call,
                                      <<"Call ended - Duration: ">>
                                          \o formatDuration(duration), duration) }
                          ELSE messages
               ELSE UNCHANGED <<calls, messages>>
            /\ last' = Result("leaveCall", "", callId,
                              IF LeaveEnds(call, rows) THEN "ended" ELSE "")
            /\ UNCHANGED <<now, calVars, appVars>>

\* ------------------------------------------------------------------- endCall
\* The early return of endCall: the call is already over.
AlreadyOver(call) == call.status = "ended"

\* Mutant: a call nobody answered is closed as an ordinary ended call.
FinalStatusEnded(call) == "ended"

\* The status endCall closes a call with.
FinalStatus(call) == IF call.status = "ringing" THEN "missed" ELSE "ended"

endCall(u, callId) ==
    IF ~Exists(calls, callId) THEN Throw("endCall", "Call not found")
    ELSE LET call == Get(calls, callId) IN
    IF AlreadyOver(call)
    THEN /\ last' = Outcome("endCall", "", callId)
         /\ UNCHANGED <<callVars, calVars, appVars>>
    ELSE
        LET duration == IF Truthy(call.startedAt) THEN now - call.startedAt ELSE 0
            finalStatus == FinalStatus(call)
            participants == { p \in callParticipants : p.callId = callId }
        IN  /\ calls' = Patch(calls, callId,
                  [call EXCEPT !.status = finalStatus, !.endedAt = now,
                               !.duration = IF finalStatus = "ended"
                                            THEN duration ELSE Undefined])
            /\ callParticipants' =
                  { IF p \in participants /\ ~Truthy(p.leftAt)
                    THEN [p EXCEPT !.leftAt = now] ELSE p : p \in callParticipants }
            /\ presenceStatus' =
                  [x \in Users |->
                      IF /\ \E p \in participants : p.userId = x
                         /\ presenceStatus[x] = "inCall"
                      THEN "active" ELSE presenceStatus[x]]
            /\ messages' =
                  IF finalStatus = "ended" /\ HasTarget(call)
                  THEN messages \cup
                         { CallMessage(call,
                              <<"Call ended - Duration: ">>
                                  \o formatDuration(duration), duration) }
                  ELSE IF finalStatus = "missed" /\ HasTarget(call)
                  THEN messages \cup
                         { CallMessage(call, <<"Missed call">>, Undefined) }
                  ELSE messages
            /\ last' = Result("endCall", "", callId, finalStatus)
            /\ UNCHANGED <<now, calVars, appVars>>

\* ------------------------------------------------------------- getActiveCall
\* Mutant: a call that is still ringing is not reported.
getActiveCallActiveOnly(u) ==
    LET mine == { p \in callParticipants : p.userId = u /\ p.leftAt = Undefined }
    IN  IF mine = {} THEN Undefined
        ELSE IF ~Exists(calls, First(mine).callId) THEN Undefined
        ELSE IF Get(calls, First(mine).callId).status # "active" THEN Undefined
        ELSE First(mine).callId

\* getActiveCall: the call of the caller's first participation with leftAt
\* unset, unless that call is over; its _id, or Undefined for null.
getActiveCall(u) ==
    LET mine == { p \in callParticipants : p.userId = u /\ p.leftAt = Undefined }
    IN  IF mine = {} THEN Undefined
        ELSE IF ~Exists(calls, First(mine).callId) THEN Undefined
        ELSE IF Get(calls, First(mine).callId).status \in {"ended", "missed"}
        THEN Undefined
        ELSE First(mine).callId

\* -------------------------------------------------------------------- clock
\* Date.now() moves forward between handler invocations.
Tick ==
    /\ now < MaxTime
    /\ now' = now + 1
    /\ UNCHANGED <<calls, callParticipants, presenceStatus, messages, last,
                   calVars, appVars>>

\* --------------------------------------------------------------- call spec
Init ==
    /\ calls = {}
    /\ callParticipants = {}
    /\ presenceStatus = [u \in Users |-> "active"]
    /\ messages = {}
    /\ now = 1
    /\ calendarEvents = {}
    /\ meetingRequests = {}
    /\ meetingUpdateRequests = {}
    /\ eventSeq = 0
    /\ requestSeq = 0
    /\ directConversations =
          { [_id |-> 1, participant1Id |-> 1, participant2Id |-> 2] }
    /\ groups = { [_id |-> 1, creatorId |-> 2] }
    /\ groupMembers =
          { [groupId |-> 1, userId |-> 2, role |-> "admin"],
            [groupId |-> 1, userId |-> 3, role |-> "member"] }
    /\ lastHeartbeat = [u \in Users |-> 1]
    /\ pinnedMessages = {}
    /\ last = Outcome("init", "", Undefined)

CallIds == 1..MaxCalls

CreateCall ==
    /\ Cardinality(calls) < MaxCalls
    /\ \E u \in Users, conversationId \in ConversationIds \cup {Undefined},
          groupId \in GroupIds \cup {Undefined} :
           createCall(u, conversationId, groupId)

JoinCall == \E u \in Users, callId \in CallIds : joinCall(u, callId)

LeaveCall == \E u \in Users, callId \in CallIds : leaveCall(u, callId)

EndCall == \E u \in Users, callId \in CallIds : endCall(u, callId)

CallNext == CreateCall \/ JoinCall \/ LeaveCall \/ EndCall \/ Tick

CallSpec == Init /\ [][CallNext]_vars

\* ------------------------------------------------------ several calls at once
\* The call handlers again, over more than one call: two users of one
\* conversation, every invocation within one millisecond.
MultiUsers == { 1, 2 }

MultiCallIds == 1..MaxMultiCalls

MultiCreateCall ==
    /\ Cardinality(calls) < MaxMultiCalls
    /\ \E u \in MultiUsers, conversationId \in ConversationIds :
           createCall(u, conversationId, Undefined)

MultiJoinCall == \E u \in MultiUsers, callId \in MultiCallIds : joinCall(u, callId)

MultiLeaveCall == \E u \in MultiUsers, callId \in MultiCallIds : leaveCall(u, callId)

MultiEndCall == \E u \in MultiUsers, callId \in MultiCallIds : endCall(u, callId)

MultiCallNext == MultiCreateCall \/ MultiJoinCall \/ MultiLeaveCall \/ MultiEndCall

MultiCallSpec == Init /\ [][MultiCallNext]_vars

\* =================================================== getOrCreateConversation
\* The pair of participants in the order it is stored and looked up.
OrderedPair(a, b) == IF a < b THEN <<a, b>> ELSE <<b, a>>

\* Index by_participants.
ByParticipants(participant1Id, participant2Id) ==
    { c \in directConversations :
        c.participant1Id = participant1Id /\ c.participant2Id = participant2Id }

getOrCreateConversation(u, otherUserId) ==
    IF otherUserId \notin Users
    THEN Throw("getOrCreateConversation", "Other user not found")
    ELSE LET pair == OrderedPair(u, otherUserId)
             existing == ByParticipants(pair[1], pair[2])
    IN
    IF existing # {}
    THEN /\ last' = Outcome("getOrCreateConversation", "", First(existing)._id)
         /\ UNCHANGED <<callVars, calVars, appVars>>
    ELSE
        /\ Cardinality(directConversations) < MaxConversations
        /\ directConversations' = directConversations \cup
              { [_id |-> Cardinality(directConversations) + 1,
                 participant1Id |-> pair[1], participant2Id |-> pair[2]] }
        /\ last' = Outcome("getOrCreateConversation", "",
                           Cardinality(directConversations) + 1)
        /\ UNCHANGED <<callVars, calVars, groups, groupMembers, lastHeartbeat,
                       pinnedMessages>>

\* args.otherUserId: the users, and the id of a user that does not exist.
OtherUserIds == Users \cup { 4 }

GetOrCreateConversation ==
    \E u \in Users, otherUserId \in OtherUserIds :
        getOrCreateConversation(u, otherUserId)

ConversationNext == GetOrCreateConversation

ConversationSpec == Init /\ [][ConversationNext]_vars

\* ======================================================= convex/calendar.ts
\* Strings are sequences of characters.  An optional argument or field is a
\* sequence of length at most one: <<>> when absent, <<v>> when present.
None == <<>>
Some(v) == <<v>>

\* a ?? b
OrElse(opt, default) == IF opt = None THEN default ELSE opt[1]

IsSpace(ch) == ch = " "

\* String.prototype.trim
RECURSIVE TrimStart(_)
TrimStart(str) ==
    IF str # <<>> /\ IsSpace(Head(str)) THEN TrimStart(Tail(str)) ELSE str

RECURSIVE TrimEnd(_)
TrimEnd(str) ==
    IF str # <<>> /\ IsSpace(str[Len(str)])
    THEN TrimEnd(SubSeq(str, 1, Len(str) - 1)) ELSE str

Trim(str) == TrimEnd(TrimStart(str))

\* args.description?.trim()
TrimOpt(opt) == IF opt = None THEN None ELSE Some(Trim(opt[1]))

\* Mutant: a range that ends exactly at its start is let through.
BadRangeStrict(startTime, endTime) == endTime < startTime

\* The ordering test every handler applies to a time range before writing it.
BadRange(startTime, endTime) == endTime <= startTime

\* The rows of calendarEvents linked to a meeting (index by_meeting_request).
LinkedEvents(meetingRequestId) ==
    { e \in calendarEvents : e.meetingRequestId = meetingRequestId }

\* -------------------------------------------------------------- createEvent
\* How many rows createEvent has inserted: every other row of calendarEvents
\* came in a pair from an approved meeting request.
SoloInserted ==
    eventSeq - 2 * Cardinality({ r \in meetingRequests : r.status = "approved" })

createEvent(u, title, description, startTime, endTime, isAllDay, isPublic) ==
    IF BadRange(startTime, endTime)
    THEN Throw("createEvent", "End time must be after start time")
    ELSE IF Len(Trim(title)) = 0
    THEN Throw("createEvent", "Title cannot be empty")
    ELSE
        /\ eventSeq < MaxEvents /\ SoloInserted < MaxSoloEvents
        /\ calendarEvents' = calendarEvents \cup
              { [_id |-> eventSeq + 1, userId |-> u, title |-> Trim(title),
                 description |-> TrimOpt(description),
                 startTime |-> startTime, endTime |-> endTime,
                 isAllDay |-> OrElse(isAllDay, FALSE),
                 isPublic |-> OrElse(isPublic, FALSE),
                 meetingRequestId |-> Undefined] }
        /\ eventSeq' = eventSeq + 1
        /\ last' = Outcome("createEvent", "", eventSeq + 1)
        /\ UNCHANGED <<meetingRequests, meetingUpdateRequests, requestSeq, callVars, appVars>>

\* -------------------------------------------------------------- updateEvent
\* The pending update request of a meeting, if any (.filter(status).first()).
PendingUpdates(meetingRequestId) ==
    { r \in meetingUpdateRequests :
        r.meetingRequestId = meetingRequestId /\ r.status = "pending" }

\* Mutant: the guard never finds a pending update request.
HasPendingUpdateNever(meetingRequestId) == FALSE

\* The guard of updateEvent against a second update request for one meeting.
HasPendingUpdate(meetingRequestId) == PendingUpdates(meetingRequestId) # {}

\* (args.title !== undefined ? args.title.trim() : event.title) || event.title
ProposedTitle(title, event) ==
    LET t == IF title # None THEN Trim(title[1]) ELSE event.title
    IN  IF t = <<>> THEN event.title ELSE t

\* updateEvent on a solo event: the patch is applied directly.
updateSoloEvent(event, title, description, startTime, endTime, isAllDay, isPublic) ==
    IF title # None /\ Len(Trim(title[1])) = 0
    THEN Throw("updateEvent", "Title cannot be empty")
    ELSE IF BadRange(OrElse(startTime, event.startTime),
                     OrElse(endTime, event.endTime))
    THEN Throw("updateEvent", "End time must be after start time")
    ELSE
        /\ calendarEvents' = Patch(calendarEvents, event._id,
              [event EXCEPT
                 !.title = IF title # None THEN Trim(title[1]) ELSE @,
                 !.description = IF description # None
                                 THEN Some(Trim(description[1])) ELSE @,
                 !.startTime = OrElse(startTime, @),
                 !.endTime = OrElse(endTime, @),
                 !.isAllDay = OrElse(isAllDay, @),
                 !.isPublic = OrElse(isPublic, @)])
        /\ last' = Outcome("updateEvent", "", event._id)
        /\ UNCHANGED <<meetingRequests, meetingUpdateRequests, eventSeq,
                       requestSeq, callVars, appVars>>

\* Mutant: a linked event is patched directly, like a solo event.
updateLinkedEventDirectly(u, event, title, description, startTime, endTime, isAllDay, isPublic) ==
    updateSoloEvent(event, title, description, startTime, endTime,
                    isAllDay, isPublic)

\* updateEvent on an event with meetingRequestId set: the change is proposed
\* to the other participant, nothing is applied.
updateLinkedEvent(u, event, title, description, startTime, endTime, isAllDay, isPublic) ==
    IF ~Exists(meetingRequests, event.meetingRequestId)
    THEN Throw("updateEvent", "Meeting not found")
    ELSE LET meetingRequest == Get(meetingRequests, event.meetingRequestId)
             respondentId == IF meetingRequest.requesterId = u
                             THEN meetingRequest.recipientId
                             ELSE meetingRequest.requesterId
             proposedTitle == ProposedTitle(title, event)
             proposedStartTime == OrElse(startTime, event.startTime)
             proposedEndTime == OrElse(endTime, event.endTime)
    IN
    IF HasPendingUpdate(event.meetingRequestId)
    THEN Throw("updateEvent",
               "You already have a pending update request for this meeting. Wait for the other participant to approve or deny it.")
    ELSE IF Len(proposedTitle) = 0
    THEN Throw("updateEvent", "Title cannot be empty")
    ELSE IF BadRange(proposedStartTime, proposedEndTime)
    THEN Throw("updateEvent", "End time must be after start time")
    ELSE
        /\ Cardinality(meetingUpdateRequests) < MaxUpdateRequests
        /\ meetingUpdateRequests' = meetingUpdateRequests \cup
              { [_id |-> Cardinality(meetingUpdateRequests) + 1,
                 meetingRequestId |-> event.meetingRequestId,
                 requestedByUserId |-> u,
                 respondentUserId |-> respondentId,
                 proposedTitle |-> proposedTitle,
                 proposedDescription |->
                     IF description # None THEN Some(Trim(description[1]))
                     ELSE event.description,
                 proposedStartTime |-> proposedStartTime,
                 proposedEndTime |-> proposedEndTime,
                 proposedIsAllDay |-> OrElse(isAllDay, event.isAllDay),
                 proposedIsPublic |-> OrElse(isPublic, event.isPublic),
                 status |-> "pending"] }
        /\ last' = Result("updateEvent", "", Undefined, "requiresApproval")
        /\ UNCHANGED <<calendarEvents, meetingRequests, eventSeq, requestSeq, callVars, appVars>>

updateEvent(u, eventId, title, description, startTime, endTime, isAllDay, isPublic) ==
    IF ~Exists(calendarEvents, eventId)
    THEN Throw("updateEvent", "Event not found")
    ELSE LET event == Get(calendarEvents, eventId) IN
    IF event.userId # u
    THEN Throw("updateEvent", "Not authorized to update this event")
    ELSE IF event.meetingRequestId # Undefined
    THEN updateLinkedEvent(u, event, title, description, startTime, endTime,
                           isAllDay, isPublic)
    ELSE updateSoloEvent(event, title, description, startTime, endTime,
                         isAllDay, isPublic)

\* -------------------------------------------------------------- deleteEvent
deleteEvent(u, eventId) ==
    IF ~Exists(calendarEvents, eventId)
    THEN Throw("deleteEvent", "Event not found")
    ELSE IF Get(calendarEvents, eventId).userId # u
    THEN Throw("deleteEvent", "Not authorized to delete this event")
    ELSE
        /\ calendarEvents' = calendarEvents \ { Get(calendarEvents, eventId) }
        /\ last' = Outcome("deleteEvent", "", eventId)
        /\ UNCHANGED <<meetingRequests, meetingUpdateRequests, eventSeq,
                       requestSeq, callVars, appVars>>

\* ----------------------------------------------------------- requestMeeting
requestMeeting(u, recipientId, title, description, proposedStartTime, proposedEndTime) ==
    IF u = recipientId
    THEN Throw("requestMeeting", "Cannot request meeting with yourself")
    ELSE IF BadRange(proposedStartTime, proposedEndTime)
    THEN Throw("requestMeeting", "End time must be after start time")
    ELSE IF Len(Trim(title)) = 0
    THEN Throw("requestMeeting", "Title cannot be empty")
    ELSE
        /\ requestSeq < MaxRequests
        /\ meetingRequests' = meetingRequests \cup
              { [_id |-> requestSeq + 1, requesterId |-> u,
                 recipientId |-> recipientId, title |-> Trim(title),
                 description |-> TrimOpt(description),
                 proposedStartTime |-> proposedStartTime,
                 proposedEndTime |-> proposedEndTime,
                 status |-> "pending", eventId |-> Undefined] }
        /\ requestSeq' = requestSeq + 1
        /\ last' = Outcome("requestMeeting", "", requestSeq + 1)
        /\ UNCHANGED <<calendarEvents, meetingUpdateRequests, eventSeq, callVars, appVars>>

\* --------------------------------------------------------- respondToRequest
\* The calendar event respondToRequest inserts for one participant.
MeetingEvent(id, userId, request) ==
    [_id |-> id, userId |-> userId, title |-> request.title,
     description |-> request.description,
     startTime |-> request.proposedStartTime,
     endTime |-> request.proposedEndTime,
     isAllDay |-> FALSE, isPublic |-> FALSE,
     meetingRequestId |-> request._id]

\* Mutant: only the responding recipient gets an event.
ApprovedEventsRecipientOnly(request, u) ==
    { MeetingEvent(eventSeq + 1, u, request) }

\* The events respondToRequest inserts on approval: the recipient's, then the
\* requester's.
ApprovedEvents(request, u) ==
    { MeetingEvent(eventSeq + 1, u, request),
      MeetingEvent(eventSeq + 2, request.requesterId, request) }

\* Mutant: the requester may answer their own request.
IsRecipientOrRequester(request, u) ==
    request.recipientId = u \/ request.requesterId = u

\* The authorization check of respondToRequest.
IsRecipient(request, u) == request.recipientId = u

respondToRequest(u, requestId, status) ==
    IF ~Exists(meetingRequests, requestId)
    THEN Throw("respondToRequest", "Meeting request not found")
    ELSE LET request == Get(meetingRequests, requestId) IN
    IF ~IsRecipient(request, u)
    THEN Throw("respondToRequest", "Not authorized to respond to this request")
    ELSE IF request.status # "pending"
    THEN Throw("respondToRequest", "Request has already been responded to")
    ELSE IF status = "approved"
    THEN
        /\ eventSeq + 2 <= MaxEvents
        /\ calendarEvents' = calendarEvents \cup ApprovedEvents(request, u)
        /\ eventSeq' = eventSeq + 2
        /\ meetingRequests' = Patch(meetingRequests, requestId,
              [request EXCEPT !.status = status, !.eventId = eventSeq + 1])
        /\ last' = Outcome("respondToRequest", "", requestId)
        /\ UNCHANGED <<meetingUpdateRequests, requestSeq, callVars, appVars>>
    ELSE
        /\ meetingRequests' = Patch(meetingRequests, requestId,
              [request EXCEPT !.status = status])
        /\ last' = Outcome("respondToRequest", "", requestId)
        /\ UNCHANGED <<calendarEvents, meetingUpdateRequests, eventSeq,
                       requestSeq, callVars, appVars>>

\* ------------------------------------------------------------ cancelRequest
\* Mutant: a request can be cancelled whatever its status.
StillPendingAlways(request) == TRUE

\* The status check of cancelRequest.
StillPending(request) == request.status = "pending"

cancelRequest(u, requestId) ==
    IF ~Exists(meetingRequests, requestId)
    THEN Throw("cancelRequest", "Meeting request not found")
    ELSE LET request == Get(meetingRequests, requestId) IN
    IF request.requesterId # u
    THEN Throw("cancelRequest", "Not authorized to cancel this request")
    ELSE IF ~StillPending(request)
    THEN Throw("cancelRequest", "Can only cancel pending requests")
    ELSE
        /\ meetingRequests' = meetingRequests \ { request }
        /\ last' = Outcome("cancelRequest", "", requestId)
        /\ UNCHANGED <<calendarEvents, meetingUpdateRequests, eventSeq,
                       requestSeq, callVars, appVars>>

\* --------------------------------------------------- respondToMeetingUpdate
\* The patch respondToMeetingUpdate applies to one linked event.
ApplyUpdate(ev, updateRequest) ==
    [ev EXCEPT !.title = updateRequest.proposedTitle,
               !.description = updateRequest.proposedDescription,
               !.startTime = updateRequest.proposedStartTime,
               !.endTime = updateRequest.proposedEndTime,
               !.isAllDay = updateRequest.proposedIsAllDay,
               !.isPublic = updateRequest.proposedIsPublic]

\* Mutant: only the proposer's own event is patched.
EventsToPatchProposerOnly(updateRequest) ==
    { e \in LinkedEvents(updateRequest.meetingRequestId) :
        e.userId = updateRequest.requestedByUserId }

\* The events respondToMeetingUpdate patches on approval.
EventsToPatch(updateRequest) == LinkedEvents(updateRequest.meetingRequestId)

\* Mutant: the proposer may answer their own update request.
IsRespondentOrProposer(updateRequest, u) ==
    updateRequest.respondentUserId = u \/ updateRequest.requestedByUserId = u

\* The authorization check of respondToMeetingUpdate.
IsRespondent(updateRequest, u) == updateRequest.respondentUserId = u

respondToMeetingUpdate(u, updateRequestId, status) ==
    IF ~Exists(meetingUpdateRequests, updateRequestId)
    THEN Throw("respondToMeetingUpdate", "Meeting update request not found")
    ELSE LET updateRequest == Get(meetingUpdateRequests, updateRequestId) IN
    IF ~IsRespondent(updateRequest, u)
    THEN Throw("respondToMeetingUpdate",
               "Not authorized to respond to this update request")
    ELSE IF updateRequest.status # "pending"
    THEN Throw("respondToMeetingUpdate",
               "This update request has already been responded to")
    ELSE
        /\ calendarEvents' =
              IF status = "approved"
              THEN { IF ev \in EventsToPatch(updateRequest)
                     THEN ApplyUpdate(ev, updateRequest) ELSE ev :
                     ev \in calendarEvents }
              ELSE calendarEvents
        /\ meetingUpdateRequests' = Patch(meetingUpdateRequests, updateRequestId,
              [updateRequest EXCEPT !.status = status])
        /\ last' = Outcome("respondToMeetingUpdate", "", updateRequestId)
        /\ UNCHANGED <<meetingRequests, eventSeq, requestSeq, callVars, appVars>>

\* ----------------------------------------------------------- calendar spec
\* Argument values the handlers are invoked with.
Args(title, description, startTime, endTime, isAllDay, isPublic) ==
    [title |-> title, description |-> description, startTime |-> startTime,
     endTime |-> endTime, isAllDay |-> isAllDay, isPublic |-> isPublic]

\* createEvent / requestMeeting: two well-formed events, a blank title, and
\* ranges that end at or before their start.
NewEventArgs ==
    { Args(<<"A">>, None, 1, 2, None, None),
      Args(<<" ", "B", " ">>, Some(<<"d", " ">>), 2, 3, Some(TRUE), Some(TRUE)),
      Args(<<" ">>, None, 1, 2, None, None),
      Args(<<"A">>, None, 2, 2, None, None),
      Args(<<"A">>, None, 3, 1, None, None) }

\* updateEvent: the empty patch, a blank title, an end before any start, a
\* start alone (valid or not depending on the event's end), and two patches
\* that change several fields.
UpdateArgs ==
    { Args(None, None, None, None, None, None),
      Args(Some(<<" ">>), None, None, None, None, None),
      Args(None, None, None, Some(1), None, None),
      Args(None, None, Some(2), None, None, None),
      Args(Some(<<" ", "B", " ">>), Some(<<"d", " ">>), Some(2), Some(3),
           Some(TRUE), Some(TRUE)),
      Args(Some(<<"A">>), None, Some(1), Some(3), None, None) }

Responses == { "approved", "denied" }
EventIds == 1..MaxEvents
RequestIds == 1..MaxRequests
UpdateRequestIds == 1..MaxUpdateRequests

CreateEvent ==
    \E u \in Users, a \in NewEventArgs :
        createEvent(u, a.title, a.description, a.startTime, a.endTime,
                    a.isAllDay, a.isPublic)

UpdateEvent ==
    \E u \in Users, eventId \in EventIds, a \in UpdateArgs :
        updateEvent(u, eventId, a.title, a.description, a.startTime, a.endTime,
                    a.isAllDay, a.isPublic)

DeleteEvent == \E u \in Users, eventId \in EventIds : deleteEvent(u, eventId)

\* Handlers treat user ids alike, so meetings are requested by users 1 and 2
\* of user 2 (one of them of themselves); user 3 is party to no meeting.
RequestMeeting ==
    \E u \in {1, 2}, recipientId \in {2}, a \in NewEventArgs :
        requestMeeting(u, recipientId, a.title, a.description,
                       a.startTime, a.endTime)

RespondToRequest ==
    \E u \in Users, requestId \in RequestIds, status \in Responses :
        respondToRequest(u, requestId, status)

CancelRequest ==
    \E u \in Users, requestId \in RequestIds : cancelRequest(u, requestId)

RespondToMeetingUpdate ==
    \E u \in Users, updateRequestId \in UpdateRequestIds, status \in Responses :
        respondToMeetingUpdate(u, updateRequestId, status)

CalendarNext ==
    \/ CreateEvent \/ UpdateEvent \/ DeleteEvent \/ RequestMeeting
    \/ RespondToRequest \/ CancelRequest \/ RespondToMeetingUpdate

CalendarSpec == Init /\ [][CalendarNext]_vars

\* ========================================================== convex/groups.ts
\* Index by_group_and_user, read from a given set of membership rows.
Membership(rows, groupId, userId) ==
    { m \in rows : m.groupId = groupId /\ m.userId = userId }

\* Index by_group filtered on role admin.
Admins(rows, groupId) ==
    { m \in rows : m.groupId = groupId /\ m.role = "admin" }

\* The elements of a list of ids.
Range(seq) == { seq[i] : i \in DOMAIN seq }

\* createGroup: the creator becomes admin, every other listed user that
\* exists becomes member (name and description are stored and read by no
\* handler below).
createGroup(u, name, memberIds) ==
    IF Len(Trim(name)) = 0
    THEN Throw("createGroup", "Group name cannot be empty")
    ELSE
        LET groupId == Cardinality(groups) + 1
            uniqueMemberIds == (Range(memberIds) \ {u}) \cap Users
        IN  /\ Cardinality(groups) < MaxGroups
            /\ groups' = groups \cup { [_id |-> groupId, creatorId |-> u] }
            /\ groupMembers' = groupMembers
                   \cup { [groupId |-> groupId, userId |-> u, role |-> "admin"] }
                   \cup { [groupId |-> groupId, userId |-> memberId,
                           role |-> "member"] : memberId \in uniqueMemberIds }
            /\ last' = Outcome("createGroup", "", groupId)
            /\ UNCHANGED <<callVars, calVars, directConversations,
                           lastHeartbeat, pinnedMessages>>

\* The loop of addMembers: users who are members already, or do not exist,
\* are skipped.
RECURSIVE AddLoop(_, _, _)
AddLoop(rows, groupId, memberIds) ==
    IF memberIds = <<>> THEN rows
    ELSE IF Membership(rows, groupId, Head(memberIds)) # {}
            \/ Head(memberIds) \notin Users
    THEN AddLoop(rows, groupId, Tail(memberIds))
    ELSE AddLoop(rows \cup { [groupId |-> groupId, userId |-> Head(memberIds),
                              role |-> "member"] },
                 groupId, Tail(memberIds))

addMembers(u, groupId, memberIds) ==
    IF ~Exists(groups, groupId) THEN Throw("addMembers", "Group not found")
    ELSE IF \A m \in Membership(groupMembers, groupId, u) : m.role # "admin"
    THEN Throw("addMembers", "Only admins can add members")
    ELSE
        /\ groupMembers' = AddLoop(groupMembers, groupId, memberIds)
        /\ last' = Outcome("addMembers", "", groupId)
        /\ UNCHANGED <<callVars, calVars, directConversations, groups,
                       lastHeartbeat, pinnedMessages>>

\* The last-admin check of removeMembers: it is made only when the admin
\* removes themselves.
RemovalBlocked(rows, groupId, u, isAdmin, memberId) ==
    /\ memberId = u /\ isAdmin
    /\ Cardinality(Admins(rows, groupId)) <= 1

\* The loop of removeMembers over the rows as the earlier iterations left
\* them; ok is FALSE when an iteration throws.
RECURSIVE RemoveLoop(_, _, _, _, _)
RemoveLoop(rows, groupId, u, isAdmin, memberIds) ==
    IF memberIds = <<>> THEN [ok |-> TRUE, rows |-> rows]
    ELSE IF Head(memberIds) # u /\ ~isAdmin
    THEN RemoveLoop(rows, groupId, u, isAdmin, Tail(memberIds))
    ELSE IF RemovalBlocked(rows, groupId, u, isAdmin, Head(memberIds))
    THEN [ok |-> FALSE, rows |-> rows]
    ELSE RemoveLoop(rows \ Membership(rows, groupId, Head(memberIds)),
                    groupId, u, isAdmin, Tail(memberIds))

removeMembers(u, groupId, memberIds) ==
    IF ~Exists(groups, groupId) THEN Throw("removeMembers", "Group not found")
    ELSE IF Membership(groupMembers, groupId, u) = {}
    THEN Throw("removeMembers", "Not a member of this group")
    ELSE
        LET isAdmin == \E m \in Membership(groupMembers, groupId, u) :
                           m.role = "admin"
            result == RemoveLoop(groupMembers, groupId, u, isAdmin, memberIds)
        IN  IF ~result.ok
            THEN Throw("removeMembers",
                       "Cannot remove the last admin. Transfer ownership first.")
            ELSE /\ groupMembers' = result.rows
                 /\ last' = Outcome("removeMembers", "", groupId)
                 /\ UNCHANGED <<callVars, calVars, directConversations, groups,
                                lastHeartbeat, pinnedMessages>>

updateMemberRole(u, groupId, userId, role) ==
    IF \A m \in Membership(groupMembers, groupId, u) : m.role # "admin"
    THEN Throw("updateMemberRole", "Only admins can change member roles")
    ELSE IF Membership(groupMembers, groupId, userId) = {}
    THEN Throw("updateMemberRole", "User is not a member of this group")
    ELSE LET targetMembership ==
                 CHOOSE m \in Membership(groupMembers, groupId, userId) : TRUE
    IN
    IF /\ targetMembership.role = "admin" /\ role = "member"
       /\ Cardinality(Admins(groupMembers, groupId)) <= 1
    THEN Throw("updateMemberRole", "Cannot demote the last admin")
    ELSE
        /\ groupMembers' = (groupMembers \ {targetMembership})
               \cup { [targetMembership EXCEPT !.role = role] }
        /\ last' = Outcome("updateMemberRole", "", groupId)
        /\ UNCHANGED <<callVars, calVars, directConversations, groups,
                       lastHeartbeat, pinnedMessages>>

\* args.memberIds: every list of at most MaxMemberIds users.
MemberIdLists ==
    UNION { [1..n -> Users] : n \in 0..MaxMemberIds }

\* args.name: a name, and one that is blank.
GroupNames == { <<"G">>, <<" ">> }

GroupArgIds == 1..MaxGroups

Roles == { "admin", "member" }

CreateGroup ==
    \E u \in Users, name \in GroupNames, memberIds \in MemberIdLists :
        createGroup(u, name, memberIds)

AddMembers ==
    \E u \in Users, groupId \in GroupArgIds, memberIds \in MemberIdLists :
        addMembers(u, groupId, memberIds)

RemoveMembers ==
    \E u \in Users, groupId \in GroupArgIds, memberIds \in MemberIdLists :
        removeMembers(u, groupId, memberIds)

UpdateMemberRole ==
    \E u \in Users, groupId \in GroupArgIds, userId \in Users, role \in Roles :
        updateMemberRole(u, groupId, userId, role)

GroupNext == CreateGroup \/ AddMembers \/ RemoveMembers \/ UpdateMemberRole

GroupSpec == Init /\ [][GroupNext]_vars

\* ====================================== convex/livekit.ts, convex/files.ts
ALLOWED_FILE_TYPES ==
    { "image/jpeg", "image/png", "image/gif", "image/webp",
      "application/pdf", "application/msword",
      "application/vnd.openxmlformats-officedocument.wordprocessingml.document",
      "application/vnd.ms-excel",
      "application/vnd.openxmlformats-officedocument.spreadsheetml.sheet",
      "text/plain", "application/zip" }

MAX_FILE_SIZE == 20 * 1024 * 1024

isAllowedFileType(mimeType) == mimeType \in ALLOWED_FILE_TYPES

isAllowedFileSize(size) == size > 0 /\ size <= MAX_FILE_SIZE

\* The caller takes part in the conversation.
IsParticipant(conversation, u) ==
    conversation.participant1Id = u \/ conversation.participant2Id = u

\* A row of table messages written by sendMessage or saveFileMessage; an
\* absent fileType is "".
ChatMessage(u, content, conversationId, groupId, type, fileId, fileType, fileSize) ==
    [_id |-> Cardinality(messages) + 1, senderId |-> u, content |-> content,
     conversationId |-> conversationId, groupId |-> groupId, type |-> type,
     fileId |-> fileId, fileType |-> fileType, fileSize |-> fileSize,
     callDuration |-> Undefined, isDeleted |-> FALSE, callId |-> Undefined]

\* ctx.db.insert('messages', ...) and the return of the new id.
InsertMessage(op, message) ==
    /\ Cardinality(messages) < MaxMessages
    /\ messages' = messages \cup { message }
    /\ last' = Outcome(op, "", message._id)
    /\ UNCHANGED <<calls, callParticipants, presenceStatus, now, calVars, appVars>>

\* sendMessage; type is None when the argument is left out.
sendMessage(u, content, conversationId, groupId, type, fileId, fileType, fileSize) ==
    LET messageType == OrElse(type, "text")
        message == ChatMessage(u, content, conversationId, groupId,
                               messageType, fileId, fileType, fileSize)
    IN
    IF conversationId = Undefined /\ groupId = Undefined
    THEN Throw("sendMessage", "Must specify either conversationId or groupId")
    ELSE IF conversationId # Undefined /\ groupId # Undefined
    THEN Throw("sendMessage", "Cannot specify both conversationId and groupId")
    ELSE IF messageType = "text" /\ Len(Trim(content)) = 0
    THEN Throw("sendMessage", "Message content cannot be empty")
    ELSE IF conversationId # Undefined
    THEN IF ~Exists(directConversations, conversationId)
         THEN Throw("sendMessage", "Conversation not found")
         ELSE IF ~IsParticipant(Get(directConversations, conversationId), u)
         THEN Throw("sendMessage",
                    "Not authorized to send messages in this conversation")
         ELSE InsertMessage("sendMessage", message)
    ELSE IF ~Exists(groups, groupId)
         THEN Throw("sendMessage", "Group not found")
         ELSE IF Membership(groupMembers, groupId, u) = {}
         THEN Throw("sendMessage", "Not a member of this group")
         ELSE InsertMessage("sendMessage", message)

\* saveFileMessage; content is None when the caption is left out.
saveFileMessage(u, storageId, fileName, fileType, fileSize, content, conversationId, groupId) ==
    LET messageContent == IF content # None /\ Trim(content[1]) # <<>>
                          THEN Trim(content[1]) ELSE fileName
        message == ChatMessage(u, messageContent, conversationId, groupId,
                               "file", storageId, fileType, fileSize)
    IN
    IF ~isAllowedFileType(fileType)
    THEN Throw("saveFileMessage", "File type is not allowed")
    ELSE IF ~isAllowedFileSize(fileSize)
    THEN Throw("saveFileMessage", "File size exceeds maximum limit")
    ELSE IF conversationId = Undefined /\ groupId = Undefined
    THEN Throw("saveFileMessage", "Must specify either conversationId or groupId")
    ELSE IF conversationId # Undefined /\ groupId # Undefined
    THEN Throw("saveFileMessage", "Cannot specify both conversationId and groupId")
    ELSE IF conversationId # Undefined
    THEN IF ~Exists(directConversations, conversationId)
         THEN Throw("saveFileMessage", "Conversation not found")
         ELSE IF ~IsParticipant(Get(directConversations, conversationId), u)
         THEN Throw("saveFileMessage", "Not authorized")
         ELSE InsertMessage("saveFileMessage", message)
    ELSE IF Membership(groupMembers, groupId, u) = {}
         THEN Throw("saveFileMessage", "Not a member of this group")
         ELSE InsertMessage("saveFileMessage", message)

\* Index by_message of pinnedMessages.
PinsOf(messageId) == { pin \in pinnedMessages : pin.messageId = messageId }

\* The _id of the next row inserted into pinnedMessages.
NextPinId ==
    IF pinnedMessages = {} THEN 1
    ELSE 1 + (CHOOSE i \in { pin._id : pin \in pinnedMessages } :
                 \A pin \in pinnedMessages : pin._id <= i)

\* The access check of pinMessage.
MayPin(message, u) ==
    IF message.conversationId # Undefined
    THEN /\ Exists(directConversations, message.conversationId)
         /\ IsParticipant(Get(directConversations, message.conversationId), u)
    ELSE IF message.groupId # Undefined
    THEN Membership(groupMembers, message.groupId, u) # {}
    ELSE TRUE

pinMessage(u, messageId, pin) ==
    IF ~Exists(messages, messageId) THEN Throw("pinMessage", "Message not found")
    ELSE LET message == Get(messages, messageId) IN
    IF message.isDeleted
    THEN Throw("pinMessage", "Cannot pin a deleted message")
    ELSE IF ~MayPin(message, u) THEN Throw("pinMessage", "Not authorized")
    ELSE IF pin
    THEN IF PinsOf(messageId) # {}
         THEN /\ last' = Outcome("pinMessage", "", First(PinsOf(messageId))._id)
              /\ UNCHANGED <<callVars, calVars, appVars>>
         ELSE /\ pinnedMessages' = pinnedMessages \cup
                    { [_id |-> NextPinId, messageId |-> messageId,
                       conversationId |-> message.conversationId,
                       groupId |-> message.groupId, pinnedBy |-> u] }
              /\ last' = Outcome("pinMessage", "", NextPinId)
              /\ UNCHANGED <<callVars, calVars, directConversations, groups,
                             groupMembers, lastHeartbeat>>
    ELSE /\ pinnedMessages' =
               IF PinsOf(messageId) # {}
               THEN pinnedMessages \ { First(PinsOf(messageId)) }
               ELSE pinnedMessages
         /\ last' = Outcome("pinMessage", "", Undefined)
         /\ UNCHANGED <<callVars, calVars, directConversations, groups,
                        groupMembers, lastHeartbeat>>

deleteMessage(u, messageId) ==
    IF ~Exists(messages, messageId)
    THEN Throw("deleteMessage", "Message not found")
    ELSE LET message == Get(messages, messageId) IN
    IF message.senderId # u
    THEN Throw("deleteMessage", "Only the sender can delete this message")
    ELSE
        /\ messages' = Patch(messages, messageId,
                             [message EXCEPT !.isDeleted = TRUE])
        /\ pinnedMessages' = pinnedMessages \ PinsOf(messageId)
        /\ last' = Outcome("deleteMessage", "", messageId)
        /\ UNCHANGED <<calls, callParticipants, presenceStatus, now, calVars,
                       directConversations, groups, groupMembers, lastHeartbeat>>

deleteFile(u, messageId) ==
    IF ~Exists(messages, messageId) THEN Throw("deleteFile", "Message not found")
    ELSE LET message == Get(messages, messageId) IN
    IF message.senderId # u
    THEN Throw("deleteFile", "Only the sender can delete this file")
    ELSE IF message.type # "file"
    THEN Throw("deleteFile", "This message is not a file")
    ELSE
        /\ messages' = Patch(messages, messageId,
                             [message EXCEPT !.isDeleted = TRUE])
        /\ last' = Outcome("deleteFile", "", messageId)
        /\ UNCHANGED <<calls, callParticipants, presenceStatus, now, calVars,
                       appVars>>

\* A file as the client describes it: storage id, MIME type and size.
File(fileId, fileType, fileSize) ==
    [fileId |-> fileId, fileType |-> fileType, fileSize |-> fileSize]

\* An allowed file at the size limit, a file of a type that is not allowed,
\* an empty file and a file one byte over the limit.
Files ==
    { File(1, "image/png", MAX_FILE_SIZE),
      File(1, "application/x-msdownload", 1),
      File(1, "image/png", 0),
      File(1, "image/png", MAX_FILE_SIZE + 1) }

\* Where a message is sent: conversation 1, group 1, nowhere or both.
Targets ==
    { <<1, Undefined>>, <<Undefined, 1>>, <<Undefined, Undefined>>, <<1, 1>> }

MessageIds == 1..MaxMessages

\* Who sends: user 2, who is in conversation 1 and in group 1, and user 3, who
\* is in group 1 only.
Senders == { 2, 3 }

\* sendMessage with text only: a text and a blank one.
SendText ==
    \E u \in Senders, t \in Targets, content \in { <<"h">>, <<" ">> } :
        sendMessage(u, content, t[1], t[2], None, Undefined, "", Undefined)

\* sendMessage with the file attachment fields.
SendFile ==
    \E u \in Senders, t \in Targets, f \in Files :
        sendMessage(u, <<"f">>, t[1], t[2], Some("file"),
                    f.fileId, f.fileType, f.fileSize)

SaveFileMessage ==
    \E u \in Senders, t \in Targets, f \in Files,
       content \in { None, Some(<<" ", "c">>) } :
        saveFileMessage(u, f.fileId, <<"f">>, f.fileType, f.fileSize, content,
                        t[1], t[2])

PinMessage ==
    \E u \in Users, messageId \in MessageIds, pin \in BOOLEAN :
        pinMessage(u, messageId, pin)

DeleteMessage == \E u \in Users, messageId \in MessageIds : deleteMessage(u, messageId)

DeleteFile == \E u \in Users, messageId \in MessageIds : deleteFile(u, messageId)

MessageNext ==
    \/ SendText \/ SendFile \/ SaveFileMessage
    \/ PinMessage \/ DeleteMessage \/ DeleteFile

MessageSpec == Init /\ [][MessageNext]_vars

\* ========================================================= convex/users.ts
PRESENCE_TIMEOUT == 60 * 1000

\* isPresenceStale(lastHeartbeat), with Date.now() read from the clock.
isPresenceStale(heartbeat) == now - heartbeat > PRESENCE_TIMEOUT

\* The presence the queries compute at read time for user v.
EffectiveStatus(v) ==
    IF isPresenceStale(lastHeartbeat[v]) THEN "offline" ELSE presenceStatus[v]

\* The clock moves on by the presence timeout or by a millisecond more, so
\* that heartbeats of age 0, 60000 and 60001 ms are read.
Elapse ==
    \E d \in { PRESENCE_TIMEOUT, PRESENCE_TIMEOUT + 1 } :
        /\ now + d <= MaxPresenceTime
        /\ now' = now + d
        /\ UNCHANGED <<calls, callParticipants, presenceStatus, messages, last,
                       calVars, appVars>>

\* A mutation of the caller's own users row.
PatchPresence(op, u, status) ==
    /\ presenceStatus' = [presenceStatus EXCEPT ![u] = status]
    /\ lastHeartbeat' = [lastHeartbeat EXCEPT ![u] = now]
    /\ last' = Outcome(op, "", u)
    /\ UNCHANGED <<calls, callParticipants, messages, now, calVars,
                   directConversations, groups, groupMembers, pinnedMessages>>

updatePresenceStatus(u, status) == PatchPresence("updatePresenceStatus", u, status)

sendHeartbeat(u) ==
    PatchPresence("sendHeartbeat", u,
                  IF presenceStatus[u] = "offline" THEN "active"
                  ELSE presenceStatus[u])

\* A query answers and writes nothing; the answer is kept as the presence
\* reported for each user the result holds.
Answer(op, reported) ==
    /\ last' = Outcome(op, "", reported)
    /\ UNCHANGED <<callVars, calVars, appVars>>

getUser(userId) ==
    Answer("getUser", [v \in { userId } |-> EffectiveStatus(v)])

\* getCurrentUser returns the users row as stored.
getCurrentUser(u) ==
    Answer("getCurrentUser", [v \in { u } |-> presenceStatus[v]])

\* searchUsers with a term every user matches and no limit reached.
searchUsers(u) ==
    Answer("searchUsers", [v \in Users \ { u } |-> EffectiveStatus(v)])

\* The other participant of a conversation of user u.
OtherUser(conversation, u) ==
    IF conversation.participant1Id = u
    THEN conversation.participant2Id ELSE conversation.participant1Id

listConversations(u) ==
    LET mine == { c \in directConversations : IsParticipant(c, u) } IN
    Answer("listConversations",
           [v \in { OtherUser(c, u) : c \in mine } |-> EffectiveStatus(v)])

getConversation(u, conversationId) ==
    IF ~Exists(directConversations, conversationId)
    THEN Throw("getConversation", "Conversation not found")
    ELSE LET conversation == Get(directConversations, conversationId) IN
    IF ~IsParticipant(conversation, u)
    THEN Throw("getConversation", "Not authorized to view this conversation")
    ELSE Answer("getConversation",
                [v \in { OtherUser(conversation, u) } |-> EffectiveStatus(v)])

getGroup(u, groupId) ==
    IF ~Exists(groups, groupId) THEN Throw("getGroup", "Group not found")
    ELSE IF Membership(groupMembers, groupId, u) = {}
    THEN Throw("getGroup", "Not a member of this group")
    ELSE Answer("getGroup",
                [v \in { m.userId : m \in { r \in groupMembers : r.groupId = groupId } }
                    |-> EffectiveStatus(v)])

\* The statuses a client sets by hand in the presence runs.
StatusArgs == { "busy", "offline" }

UpdatePresenceStatus ==
    \E u \in Users, status \in StatusArgs : updatePresenceStatus(u, status)

SendHeartbeat == \E u \in Users : sendHeartbeat(u)

GetUser == \E userId \in Users : getUser(userId)

GetCurrentUser == \E u \in Users : getCurrentUser(u)

SearchUsers == \E u \in Users : searchUsers(u)

ListConversations == \E u \in Users : listConversations(u)

GetConversation ==
    \E u \in Users, conversationId \in { 1, 2 } : getConversation(u, conversationId)

GetGroup == \E u \in Users, groupId \in { 1, 2 } : getGroup(u, groupId)

PresenceNext ==
    \/ Elapse \/ UpdatePresenceStatus \/ SendHeartbeat
    \/ GetUser \/ GetCurrentUser \/ SearchUsers
    \/ ListConversations \/ GetConversation \/ GetGroup

PresenceSpec == Init /\ [][PresenceNext]_vars

\* ------------------------------------------------------------- call claims
Terminal(call) == call.status = "ended" \/ call.status = "missed"

\* The call system messages inserted for one call.
CallMessages(callId) == { m \in messages : m.type = "call" /\ m.callId = callId }

StatusSteps ==
    { <<"ringing", "active">>, <<"active", "ended">>, <<"ringing", "missed">> }

\* C1: every call is created ringing and its status changes only along
\* ringing->active, active->ended or ringing->missed.
C1_StatusOnlyForward ==
    [][\A c \in calls' :
          IF Exists(calls, c._id)
          THEN \/ c.status = Get(calls, c._id).status
               \/ <<Get(calls, c._id).status, c.status>> \in StatusSteps
          ELSE c.status = "ringing"]_vars

\* C2: endCall on a call that is already ended or missed changes nothing of
\* the call, its participants, presence or messages and returns the call id.
C2_EndCallTerminalNoOp ==
    [][\A u \in Users, callId \in CallIds :
          (/\ Exists(calls, callId)
           /\ Terminal(Get(calls, callId))
           /\ endCall(u, callId))
          => /\ UNCHANGED <<calls, callParticipants, presenceStatus, messages>>
             /\ last'.err = "" /\ last'.ret = callId]_vars

\* C3: a call with a target has no call system message while ringing or
\* active and exactly one once it is ended or missed.
C3_OneSystemMessage ==
    \A c \in calls :
        HasTarget(c) =>
            Cardinality(CallMessages(c._id)) = IF Terminal(c) THEN 1 ELSE 0

\* The rows of a call still joined, other than those of user u.
OthersActive(u, callId) ==
    { p \in ActiveParticipants(callParticipants, callId) : p.userId # u }

Joined(u, callId) ==
    \E p \in ActiveParticipants(callParticipants, callId) : p.userId = u

\* C4: a leaveCall by a joined participant while another participant is still
\* joined never changes the call's status; a leaveCall by the last joined
\* participant of an active call sets ended, stamps endedAt and sets
\* duration = endedAt - startedAt >= 0.
C4_LeaveCallStatus ==
    [][\A u \in Users, callId \in CallIds :
          (Exists(calls, callId) /\ Joined(u, callId) /\ leaveCall(u, callId))
          => LET call == Get(calls, callId)
                 after == Get(calls', callId)
             IN  /\ OthersActive(u, callId) # {} => after.status = call.status
                 /\ (OthersActive(u, callId) = {} /\ call.status = "active")
                    => /\ after.status = "ended"
                       /\ after.endedAt = now
                       /\ after.duration = after.endedAt - call.startedAt
                       /\ after.duration >= 0]_vars

\* C4 witness: the last participant has just left an active call that had
\* run for some time.
C4_Witness ==
    /\ last.op = "leaveCall" /\ last.note = "ended"
    /\ \E c \in calls : c.status = "ended" /\ c.duration > 0 /\ c.endedAt = now

\* C10: leaveCall mutations are serialized, so once no participant of a call
\* is joined the call is not active, and a call that is ended keeps its
\* record (one endedAt/duration stamp) and its system messages (one duration
\* message) through every later leaveCall.
C10_RacingLeaves ==
    /\ [](\A c \in calls :
            ActiveParticipants(callParticipants, c._id) = {} => c.status # "active")
    /\ [][\A u \in Users, callId \in CallIds :
            (Exists(calls, callId) /\ leaveCall(u, callId))
            => LET call == Get(calls, callId)
               IN  /\ last'.note = "ended"
                      => /\ call.status = "active"
                         /\ Cardinality(CallMessages(callId)') =
                               Cardinality(CallMessages(callId)) + 1
                   /\ call.status = "ended"
                      => UNCHANGED <<calls, messages>>]_vars

\* C10 witness: two participants have left one after the other at the same
\* time and the second leave ended the call.
C10_Witness ==
    /\ last.op = "leaveCall" /\ last.note = "ended"
    /\ \E c \in calls :
          /\ c.status = "ended"
          /\ Cardinality(CallMessages(c._id)) = 1
          /\ Cardinality({ p \in callParticipants :
                             p.callId = c._id /\ p.leftAt = c.endedAt }) >= 2

\* --------------------------------------------------------- calendar claims
\* The six fields of a calendar event a meeting update negotiates.
Fields(e) == <<e.title, e.description, e.startTime, e.endTime, e.isAllDay, e.isPublic>>

Proposed(r) ==
    <<r.proposedTitle, r.proposedDescription, r.proposedStartTime,
      r.proposedEndTime, r.proposedIsAllDay, r.proposedIsPublic>>

Linked(e) == e.meetingRequestId # Undefined

PendingError ==
    "You already have a pending update request for this meeting. Wait for the other participant to approve or deny it."

\* C5: at most one update request is pending per meeting, and an updateEvent
\* on a linked event while one is pending throws, inserts no update request
\* and changes no event.
C5_OnePendingUpdate ==
    /\ [](\A r1, r2 \in meetingUpdateRequests :
            (/\ r1.status = "pending" /\ r2.status = "pending"
             /\ r1.meetingRequestId = r2.meetingRequestId) => r1 = r2)
    /\ [][last'.op = "updateEvent" =>
          \A u \in Users, a \in UpdateArgs :
            \A e \in calendarEvents :
              (/\ e.userId = u /\ Linked(e)
               /\ \E r \in meetingUpdateRequests :
                     r.meetingRequestId = e.meetingRequestId /\ r.status = "pending"
               /\ updateEvent(u, e._id, a.title, a.description, a.startTime,
                              a.endTime, a.isAllDay, a.isPublic))
              => /\ last'.err # ""
                 /\ UNCHANGED <<meetingUpdateRequests, calendarEvents>>]_vars

\* C5 witness: a second edit of a shared meeting has just been refused while
\* the first is still pending.
C5_Witness ==
    /\ last.op = "updateEvent" /\ last.err = PendingError
    /\ \E r \in meetingUpdateRequests : r.status = "pending"

\* C6: updateEvent by the owner of a linked event changes no calendar event;
\* when it returns it has inserted one pending update request and answers
\* "requires approval".  The six fields of a linked event change only in a
\* respondToMeetingUpdate step that approves an update request of its meeting.
C6_LinkedEventNeedsApproval ==
    [][/\ last'.op = "updateEvent" =>
            \A u \in Users, a \in UpdateArgs :
              \A e \in calendarEvents :
                (/\ e.userId = u /\ Linked(e)
                 /\ updateEvent(u, e._id, a.title, a.description, a.startTime,
                                a.endTime, a.isAllDay, a.isPublic))
                => /\ calendarEvents' = calendarEvents
                   /\ last'.err = ""
                      => /\ last'.note = "requiresApproval"
                         /\ meetingUpdateRequests \subseteq meetingUpdateRequests'
                         /\ \E r \in meetingUpdateRequests' :
                               /\ meetingUpdateRequests' =
                                     meetingUpdateRequests \cup {r}
                               /\ r \notin meetingUpdateRequests
                               /\ r.status = "pending"
                               /\ r.meetingRequestId = e.meetingRequestId
       /\ \A e \in calendarEvents, f \in calendarEvents' :
            (Linked(e) /\ f._id = e._id /\ Fields(f) # Fields(e))
            => /\ last'.op = "respondToMeetingUpdate" /\ last'.err = ""
               /\ \E r \in meetingUpdateRequests :
                     /\ r.meetingRequestId = e.meetingRequestId
                     /\ r.status = "pending"
                     /\ Get(meetingUpdateRequests', r._id).status = "approved"
                     /\ Fields(f) = Proposed(r)]_vars

\* C6 witness: the owner of a linked event has proposed a change, which is
\* pending and not applied.
C6_Witness ==
    /\ last.op = "updateEvent" /\ last.note = "requiresApproval"
    /\ \E r \in meetingUpdateRequests, e \in calendarEvents :
          /\ r.status = "pending" /\ e.meetingRequestId = r.meetingRequestId
          /\ e.userId = r.requestedByUserId
          /\ Fields(e) # Proposed(r)

\* C7: an approving respondToMeetingUpdate sets the six fields of every event
\* linked to the meeting to the proposed values, so the linked events agree;
\* a denying one changes no calendar event.
C7_ApprovalPatchesBoth ==
    [][last'.op = "respondToMeetingUpdate" /\ last'.err = "" =>
          \A u \in Users, status \in Responses :
            \A r \in meetingUpdateRequests :
              respondToMeetingUpdate(u, r._id, status)
              => IF status = "approved"
                 THEN /\ \A e \in calendarEvents' :
                            e.meetingRequestId = r.meetingRequestId
                            => Fields(e) = Proposed(r)
                      /\ \A e, f \in calendarEvents' :
                            (Linked(e) /\ e.meetingRequestId = f.meetingRequestId)
                            => Fields(e) = Fields(f)
                      /\ { e._id : e \in calendarEvents' } =
                            { e._id : e \in calendarEvents }
                 ELSE calendarEvents' = calendarEvents]_vars

\* C7 witness: an update was approved and both linked events now carry the
\* proposed values, which differ from the meeting as first requested.
C7_Witness ==
    /\ last.op = "respondToMeetingUpdate" /\ last.err = ""
    /\ \E r \in meetingUpdateRequests, e, f \in calendarEvents :
          /\ r.status = "approved"
          /\ e # f
          /\ e.meetingRequestId = r.meetingRequestId
          /\ f.meetingRequestId = r.meetingRequestId
          /\ Fields(e) = Proposed(r) /\ Fields(f) = Proposed(r)
          /\ e.title # Get(meetingRequests, r.meetingRequestId).title
          /\ e.startTime # Get(meetingRequests, r.meetingRequestId).proposedStartTime

RangeError == "End time must be after start time"

\* C8: every calendar event has startTime < endTime, and a createEvent or a
\* solo updateEvent whose resulting endTime <= startTime throws and leaves the
\* events unchanged.
C8_StartBeforeEnd ==
    /\ [](\A e \in calendarEvents : e.startTime < e.endTime)
    /\ [][/\ last'.op = "createEvent" =>
               \A u \in Users, a \in NewEventArgs :
                 (/\ a.endTime <= a.startTime
                  /\ createEvent(u, a.title, a.description, a.startTime,
                                 a.endTime, a.isAllDay, a.isPublic))
                 => last'.err # "" /\ calendarEvents' = calendarEvents
          /\ last'.op = "updateEvent" =>
               \A u \in Users, a \in UpdateArgs :
                 \A e \in calendarEvents :
                   (/\ e.userId = u /\ ~Linked(e)
                    /\ OrElse(a.endTime, e.endTime) <= OrElse(a.startTime, e.startTime)
                    /\ updateEvent(u, e._id, a.title, a.description, a.startTime,
                                   a.endTime, a.isAllDay, a.isPublic))
                   => last'.err # "" /\ calendarEvents' = calendarEvents]_vars

\* C8 witness: a solo event exists whose owner has just been refused a patch
\* that would have ended it at or before its start.
C8_Witness ==
    /\ last.op = "updateEvent" /\ last.err = RangeError
    /\ \E e \in calendarEvents : ~Linked(e) /\ e.startTime = 2 /\ e.endTime = 3

\* C9: an approving respondToRequest on a pending request inserts exactly two
\* calendar events, one owned by the requester and one by the recipient, each
\* linked to the request and carrying its title and time range, and sets the
\* request's eventId to one of them; a denying one inserts no event and
\* leaves eventId unset.
C9_ApprovalCreatesTwoEvents ==
    [][last'.op = "respondToRequest" /\ last'.err = "" =>
          \A u \in Users, status \in Responses :
            \A r \in meetingRequests :
              (r.status = "pending" /\ respondToRequest(u, r._id, status))
              => LET new == calendarEvents' \ calendarEvents
                     after == Get(meetingRequests', r._id)
                 IN  IF status = "approved"
                     THEN /\ calendarEvents \subseteq calendarEvents'
                          /\ Cardinality(new) = 2
                          /\ \E e, f \in new :
                                /\ e._id # f._id
                                /\ e.userId = r.requesterId
                                /\ f.userId = r.recipientId
                          /\ \A e \in new :
                                /\ e.meetingRequestId = r._id
                                /\ e.title = r.title
                                /\ e.startTime = r.proposedStartTime
                                /\ e.endTime = r.proposedEndTime
                          /\ \E e \in new : after.eventId = e._id
                     ELSE /\ calendarEvents' = calendarEvents
                          /\ after.eventId = Undefined]_vars

\* C9 witness: a request has just been approved and both participants own an
\* event linked to it.
C9_Witness ==
    /\ last.op = "respondToRequest" /\ last.err = ""
    /\ \E r \in meetingRequests :
          /\ r.status = "approved"
          /\ \E e, f \in calendarEvents :
                /\ e.userId = r.requesterId /\ f.userId = r.recipientId
                /\ e.meetingRequestId = r._id /\ f.meetingRequestId = r._id
                /\ r.eventId = f._id


C12_RosterMatchesStatus ==
    \A c \in calls :
        /\ Terminal(c) => ActiveParticipants(callParticipants, c._id) = {}
        /\ c.status = "active" => ActiveParticipants(callParticipants, c._id) # {}

\* endCall closed an active call with two participants still joined.
C12_Witness ==
    /\ last.op = "endCall" /\ last.note = "ended"
    /\ \E c \in calls :
          /\ c.status = "ended"
          /\ Cardinality({ p \in callParticipants :
                              p.callId = c._id /\ p.leftAt = c.endedAt }) >= 2

\* The caller takes part in the call's conversation.
InConversation(call, u) ==
    \E c \in directConversations :
        /\ c._id = call.conversationId
        /\ (c.participant1Id = u \/ c.participant2Id = u)

\* The caller is a member of the call's group.
InGroup(call, u) ==
    \E m \in groupMembers : m.groupId = call.groupId /\ m.userId = u

\* The error the claim expects of joinCall ("" when it expects none): a
\* missing call, then a call that is over, then a caller with no access.
JoinError(u, callId) ==
    IF ~Exists(calls, callId) THEN "Call not found"
    ELSE IF Terminal(Get(calls, callId)) THEN "Call has already ended"
    ELSE IF ~InConversation(Get(calls, callId), u) /\ ~InGroup(Get(calls, callId), u)
    THEN "Not authorized to join this call"
    ELSE ""

\* C13: joinCall fails with "Call not found" for a missing call, with "Call
\* has already ended" for an ended or missed call, and with "Not authorized
\* to join this call" for a caller who is neither in the call's conversation
\* nor in its group; a failing joinCall writes no participant row, leaves the
\* call's status and startedAt and every presence as they were.
C13_JoinCallRejections ==
    [][last'.op = "joinCall" =>
          \A u \in Users, callId \in CallIds :
              (JoinError(u, callId) # "" /\ joinCall(u, callId)) =>
                  /\ last'.err = JoinError(u, callId)
                  /\ UNCHANGED <<calls, callParticipants, presenceStatus>>]_vars

\* An outsider was turned away from a call that is still open.
C13_Witness ==
    /\ last.op = "joinCall"
    /\ last.err = "Not authorized to join this call"
    /\ \E c \in calls : c.status = "ringing"

\* C14: a ringing call becomes active only through a joinCall by someone
\* other than the initiator, or by the initiator after having left; a
\* joinCall by the initiator whose row still has leftAt unset leaves the call
\* ringing with startedAt unset.
C14_RingingUntilAnswered ==
    [][\A c \in calls :
          c.status = "ringing" =>
              LET after == Get(calls', c._id)
              IN  /\ after.status = "active" =>
                        /\ last'.op = "joinCall"
                        /\ \E u \in Users :
                              /\ joinCall(u, c._id)
                              /\ (u # c.initiatorId \/ ~Joined(u, c._id))
                  /\ (/\ last'.op = "joinCall"
                      /\ Joined(c.initiatorId, c._id)
                      /\ joinCall(c.initiatorId, c._id))
                     => /\ after.status = "ringing"
                        /\ after.startedAt = Undefined]_vars

\* The participant rows of one user in one call.
RowsOf(rows, callId, u) == { p \in rows : p.callId = callId /\ p.userId = u }

\* C15: a call has at most one participant row per user; a joinCall by a
\* user who already has a row inserts none and leaves that row with leftAt
\* unset.
C15_OneRowPerParticipant ==
    [][/\ \A callId \in CallIds, u \in Users :
              Cardinality(RowsOf(callParticipants', callId, u)) <= 1
       /\ (last'.op = "joinCall" /\ last'.err = "") =>
              \A u \in Users, callId \in CallIds :
                  (RowsOf(callParticipants, callId, u) # {} /\ joinCall(u, callId)) =>
                      /\ Cardinality(callParticipants') = Cardinality(callParticipants)
                      /\ \A p \in RowsOf(callParticipants', callId, u) :
                            /\ p.leftAt = Undefined
                            /\ \E q \in RowsOf(callParticipants, callId, u) :
                                  q._id = p._id]_vars

\* A user who had left came back into the call on the row they already had.
C15_Witness ==
    /\ last.op = "joinCall" /\ last.note = "rejoined"
    /\ \E callId \in CallIds, u \in Users :
          /\ Cardinality(RowsOf(callParticipants, callId, u)) = 1
          /\ Joined(u, callId)

\* C16: every call has exactly one of conversationId and groupId; createCall
\* with neither or with both is rejected and inserts no call.
C16_ExactlyOneTarget ==
    [][/\ \A c \in calls' :
              (c.conversationId # Undefined) # (c.groupId # Undefined)
       /\ last'.op = "createCall" =>
              \A u \in Users, conversationId \in ConversationIds \cup {Undefined},
                 groupId \in GroupIds \cup {Undefined} :
                  (/\ (conversationId = Undefined) = (groupId = Undefined)
                   /\ createCall(u, conversationId, groupId))
                  => last'.err # "" /\ calls' = calls]_vars


\* ------------------------------------------------------------- C17 .. C20
\* C17: a meeting request leaves pending only through a respondToRequest by
\* its recipient, or is removed by cancelRequest; respondToRequest by anyone
\* else, or on a request already approved or denied, throws and changes
\* neither the requests nor the events; an approved or denied request keeps
\* its status for good.
C17_OnlyRecipientResponds ==
    [][/\ \A r \in meetingRequests :
              IF r.status = "pending"
              THEN \/ r \in meetingRequests'
                   \/ /\ ~Exists(meetingRequests', r._id)
                      /\ last'.op = "cancelRequest"
                   \/ /\ Exists(meetingRequests', r._id)
                      /\ Get(meetingRequests', r._id).status \in Responses
                      /\ last'.op = "respondToRequest"
                      /\ \E status \in Responses :
                            respondToRequest(r.recipientId, r._id, status)
              ELSE /\ Exists(meetingRequests', r._id)
                   /\ Get(meetingRequests', r._id).status = r.status
       /\ last'.op = "respondToRequest" =>
              \A u \in Users, requestId \in RequestIds, status \in Responses :
                  (/\ Exists(meetingRequests, requestId)
                   /\ \/ Get(meetingRequests, requestId).recipientId # u
                      \/ Get(meetingRequests, requestId).status # "pending"
                   /\ respondToRequest(u, requestId, status))
                  => /\ last'.err # ""
                     /\ UNCHANGED <<meetingRequests, calendarEvents>>]_vars

\* A second answer to a request that was already denied was turned away.
C17_Witness ==
    /\ last.op = "respondToRequest"
    /\ last.err = "Request has already been responded to"
    /\ \E r \in meetingRequests : r.status = "denied"

\* C18: a meeting update request leaves pending only through a
\* respondToMeetingUpdate by its named respondent; respondToMeetingUpdate by
\* anyone else, the proposer included, or on an update request already
\* approved or denied, throws and changes neither the update requests nor any
\* event; an approved or denied update request keeps its status for good.
C18_OnlyRespondentResponds ==
    [][/\ \A r \in meetingUpdateRequests :
              IF r.status = "pending"
              THEN \/ r \in meetingUpdateRequests'
                   \/ /\ Exists(meetingUpdateRequests', r._id)
                      /\ Get(meetingUpdateRequests', r._id).status \in Responses
                      /\ last'.op = "respondToMeetingUpdate"
                      /\ \E status \in Responses :
                            respondToMeetingUpdate(r.respondentUserId, r._id, status)
              ELSE /\ Exists(meetingUpdateRequests', r._id)
                   /\ Get(meetingUpdateRequests', r._id).status = r.status
       /\ last'.op = "respondToMeetingUpdate" =>
              \A u \in Users, updateRequestId \in UpdateRequestIds,
                 status \in Responses :
                  (/\ Exists(meetingUpdateRequests, updateRequestId)
                   /\ \/ Get(meetingUpdateRequests, updateRequestId).respondentUserId # u
                      \/ Get(meetingUpdateRequests, updateRequestId).status # "pending"
                   /\ respondToMeetingUpdate(u, updateRequestId, status))
                  => /\ last'.err # ""
                     /\ UNCHANGED <<meetingUpdateRequests, calendarEvents>>]_vars

\* The proposer tried to answer their own update request, which stays pending.
C18_Witness ==
    /\ last.op = "respondToMeetingUpdate"
    /\ last.err = "Not authorized to respond to this update request"
    /\ \E r \in meetingUpdateRequests : r.status = "pending"

\* A handler invocation that answered or cancelled a meeting request.
TookEffect(op) == last'.op = op /\ last'.err = ""

\* C19: cancelRequest succeeds only for the requester of a pending request
\* and then removes it; of a cancelRequest and a respondToRequest on one
\* pending request, whichever runs first takes the request out of pending and
\* the other is rejected; every event with meetingRequestId set references an
\* existing approved meeting request.
C19_CancelOrRespond ==
    /\ [](\A e \in calendarEvents :
            Linked(e) =>
                /\ Exists(meetingRequests, e.meetingRequestId)
                /\ Get(meetingRequests, e.meetingRequestId).status = "approved")
    /\ [][/\ last'.op = "cancelRequest" =>
                \A u \in Users, requestId \in RequestIds :
                    (Exists(meetingRequests, requestId) /\ cancelRequest(u, requestId)) =>
                        LET request == Get(meetingRequests, requestId)
                        IN  IF request.requesterId = u /\ request.status = "pending"
                            THEN /\ last'.err = ""
                                 /\ meetingRequests' = meetingRequests \ { request }
                            ELSE /\ last'.err # ""
                                 /\ UNCHANGED <<meetingRequests, calendarEvents>>
          /\ (TookEffect("cancelRequest") \/ TookEffect("respondToRequest")) =>
                /\ Exists(meetingRequests, last'.ret)
                /\ Get(meetingRequests, last'.ret).status = "pending"
                /\ \A r \in meetingRequests' :
                      r._id = last'.ret => r.status # "pending"]_vars

\* The requester cancelled first, so the recipient's answer found nothing.
C19_Witness ==
    /\ last.op = "respondToRequest"
    /\ last.err = "Meeting request not found"
    /\ requestSeq > 0
    /\ meetingRequests = {}

\* The proposed field set of a linked updateEvent: what the arguments supply,
\* and the event's current value for what they leave out.
Merged(a, event) ==
    << IF a.title # None THEN Trim(a.title[1]) ELSE event.title,
       IF a.description # None THEN Some(Trim(a.description[1]))
       ELSE event.description,
       OrElse(a.startTime, event.startTime),
       OrElse(a.endTime, event.endTime),
       OrElse(a.isAllDay, event.isAllDay),
       OrElse(a.isPublic, event.isPublic) >>

\* C20: updateEvent on a linked event proposes the supplied fields, with the
\* event's current values for the unspecified ones only, and validates that
\* set: a supplied title that is empty after trimming, or a proposed endTime
\* <= proposed startTime, throws and inserts no meeting update request.
C20_LinkedUpdateValidated ==
    [][last'.op = "updateEvent" =>
          \A u \in Users, eventId \in EventIds, a \in UpdateArgs :
              (/\ Exists(calendarEvents, eventId)
               /\ Get(calendarEvents, eventId).userId = u
               /\ Linked(Get(calendarEvents, eventId))
               /\ updateEvent(u, eventId, a.title, a.description, a.startTime,
                              a.endTime, a.isAllDay, a.isPublic))
              => LET event == Get(calendarEvents, eventId)
                     merged == Merged(a, event)
                 IN  /\ (merged[1] = <<>> \/ merged[4] <= merged[3]) =>
                            /\ last'.err # ""
                            /\ meetingUpdateRequests' = meetingUpdateRequests
                     /\ \A r \in meetingUpdateRequests' \ meetingUpdateRequests :
                            Proposed(r) = merged]_vars


\* ------------------------------------------------------------- C21 .. C30
\* The ringing or active calls user u is still joined to.
OpenCallsOf(u) ==
    { c \in calls :
        /\ c.status \in {"ringing", "active"}
        /\ \E p \in callParticipants :
              p.callId = c._id /\ p.userId = u /\ p.leftAt = Undefined }

\* C21: getActiveCall returns a call exactly when the caller has a participant
\* row with leftAt unset in a ringing or active call, and then returns such a
\* call; otherwise it returns none.
C21_GetActiveCall ==
    \A u \in Users :
        IF OpenCallsOf(u) = {}
        THEN getActiveCall(u) = Undefined
        ELSE getActiveCall(u) \in { c._id : c \in OpenCallsOf(u) }

\* The caller's first call is over and they are joined to a second one, which
\* is the one reported.
C21_Witness ==
    \E u \in Users :
        /\ getActiveCall(u) = 2
        /\ \E c \in calls : c._id = 1 /\ Terminal(c)
        /\ \E p \in callParticipants : p.callId = 1 /\ p.userId = u


\* C22: no two calls ever have the same roomName, whatever createCall
\* invocations produced them, within one millisecond or not.
C22_RoomNameUnique ==
    \A c1, c2 \in calls : c1._id # c2._id => c1.roomName # c2.roomName

\* C25: every participant row is inserted for a user who is then in the
\* call's conversation or a member of its group, the initiator's row
\* included: createCall for a target the caller does not belong to inserts
\* no call.
C25_ParticipantsBelong ==
    [][/\ \A p \in callParticipants' :
              (~\E q \in callParticipants : q._id = p._id) =>
                  \/ InConversation(Get(calls', p.callId), p.userId)
                  \/ InGroup(Get(calls', p.callId), p.userId)
       /\ last'.op = "createCall" =>
              \A u \in Users, conversationId \in ConversationIds \cup {Undefined},
                 groupId \in GroupIds \cup {Undefined} :
                  (/\ ~InConversation([conversationId |-> conversationId], u)
                   /\ ~InGroup([groupId |-> groupId], u)
                   /\ createCall(u, conversationId, groupId))
                  => calls' = calls]_vars

\* C26: under createCall, joinCall, leaveCall and endCall on any number of
\* calls, a user with a participant row with leftAt unset in a ringing or
\* active call has presenceStatus inCall.
C26_JoinedMeansInCall ==
    \A u \in Users : OpenCallsOf(u) # {} => presenceStatus[u] = "inCall"

\* C27: every ringing call has at least one participant row with leftAt
\* unset.
C27_RingingHasRoster ==
    \A c \in calls :
        c.status = "ringing" => ActiveParticipants(callParticipants, c._id) # {}


\* The conversations between users a and b, whichever way round they are
\* stored.
Between(rows, a, b) ==
    { c \in rows : {c.participant1Id, c.participant2Id} = {a, b} }

\* C30: getOrCreateConversation by A for B and by B for A return the same
\* conversation id in any order; there is at most one conversation per
\* unordered pair of users, and every conversation is stored with
\* participant1Id < participant2Id.
C30_OneConversationPerPair ==
    /\ [](\A c \in directConversations :
            /\ c.participant1Id < c.participant2Id
            /\ Between(directConversations, c.participant1Id, c.participant2Id) = {c})
    /\ [][(last'.op = "getOrCreateConversation" /\ last'.err = "") =>
              \A u \in Users, otherUserId \in Users :
                  getOrCreateConversation(u, otherUserId) =>
                      /\ \E c \in Between(directConversations', u, otherUserId) :
                            c._id = last'.ret
                      /\ \A c \in Between(directConversations, u, otherUserId) :
                            c._id = last'.ret]_vars


\* C28: after any createGroup, addMembers, removeMembers and updateMemberRole
\* invocations, every group that has a member has a member with role admin.
C28_GroupKeepsAnAdmin ==
    \A g \in groups :
        (\E m \in groupMembers : m.groupId = g._id) =>
            Admins(groupMembers, g._id) # {}


\* A message that references a file.
ReferencesFile(m) == m.type = "file" \/ m.fileId # Undefined

\* C23: every message that references a file has a fileType of the allowed
\* MIME list and 0 < fileSize <= 20 MB, whether saveFileMessage or
\* sendMessage created it; a request outside either limit creates no message.
C23_FilesValidated ==
    /\ [](\A m \in messages :
            ReferencesFile(m) =>
                /\ m.fileType \in ALLOWED_FILE_TYPES
                /\ 0 < m.fileSize /\ m.fileSize <= 20 * 1024 * 1024)
    /\ [][(last'.op \in {"sendMessage", "saveFileMessage"} /\ last'.err = "") =>
              \A m \in messages' \ messages :
                  ReferencesFile(m) =>
                      /\ m.fileType \in ALLOWED_FILE_TYPES
                      /\ 0 < m.fileSize /\ m.fileSize <= 20 * 1024 * 1024]_vars

\* C29: no pinnedMessages row references a message whose isDeleted is true,
\* after any pinMessage, deleteMessage and deleteFile invocations.
C29_NoPinOnDeleted ==
    \A pin \in pinnedMessages :
        \A m \in messages : m._id = pin.messageId => ~m.isDeleted

\* The queries that return a user's presence.
PresenceQueries ==
    { "getUser", "getCurrentUser", "searchUsers", "listConversations",
      "getConversation", "getGroup" }

\* C24: every query that returns a user's presence reports offline when
\* now - lastHeartbeat > 60000 and the stored presenceStatus otherwise (a gap
\* of exactly 60000 is not stale), and no query changes the stored
\* presenceStatus.
C24_PresenceAtReadTime ==
    [][(last'.op \in PresenceQueries /\ last'.err = "") =>
          /\ \A v \in DOMAIN last'.ret :
                last'.ret[v] = IF now - lastHeartbeat[v] > 60000
                               THEN "offline" ELSE presenceStatus[v]
          /\ presenceStatus' = presenceStatus]_vars

====
